---- MODULE Spec2Model ----
(***************************************************************************)
(* Model of src/src/render.rs: markdown_to_html, MarkdownRenderer::new and *)
(* MarkdownRenderer::to_html.                                              *)
(*                                                                         *)
(* Strings are sequences of lexemes: "/" is the path separator character,  *)
(* a lexeme ending in ":" is a URL scheme with its colon, "@" ends the     *)
(* userinfo of an authority, every other lexeme is a run of characters     *)
(* holding none of these.  s.starts_with('/') is Head(s) = "/" and         *)
(* s.ends_with('/') is s[Len(s)] = "/".                                    *)
(*                                                                         *)
(* HTML is a forest: a text node or an element with a tag name, a list of  *)
(* attributes (name, value) and children.                                  *)
(***************************************************************************)
EXTENDS Integers, Sequences, FiniteSets, TLC

VARIABLES
    pc,                  \* position in markdown_to_html / in the resolver run
    base_url,            \* Option<&str>: argument of markdown_to_html
    text,                \* the markdown document (argument of markdown_to_html)
    sanitizer_base_url,  \* Option<String> captured by the closure (line 102)
    url_relative,        \* the UrlRelative policy of html_sanitizer (line 141)
    result,              \* what markdown_to_html returned
    evaluated,           \* the URLs the sanitizer handed to the UrlRelative evaluator
    url,                 \* argument of relative_url_sanitizer
    new_url              \* what relative_url_sanitizer returned

vars == <<pc, base_url, text, sanitizer_base_url, url_relative, result, evaluated,
          url, new_url>>

\* ------------------------------------------------------------- bounds
MaxBaseLen == 4
MaxUrlLen == 3
MaxAttrs == 2

\* ------------------------------------------------------------- Option
None == [some |-> FALSE, v |-> <<>>]
Some(s) == [some |-> TRUE, v |-> s]

\* All sequences over S of length at most n.
SeqUpTo(S, n) == UNION {[1..k -> S] : k \in 0..n}

\* ------------------------------------------------------------- url::Url
\* Lexemes that are a scheme and its colon.
SchemeTokens == {"https:", "javascript:"}

\* The schemes the url crate parses with an obligatory host.
SpecialSchemes == {"https:"}

RECURSIVE SkipSlashes(_)
SkipSlashes(s) ==
    IF s # <<>> /\ Head(s) = "/" THEN SkipSlashes(Tail(s)) ELSE s

\* The authority: everything up to the first path separator.
RECURSIVE Authority(_)
Authority(s) ==
    IF s = <<>> \/ Head(s) = "/" THEN <<>> ELSE <<Head(s)>> \o Authority(Tail(s))

\* The host of an authority: what follows its last "@".
RECURSIVE HostOf(_)
HostOf(a) ==
    IF \E i \in 1..Len(a) : a[i] = "@"
    THEN HostOf(Tail(a))
    ELSE a

ParseErr(e) == [ok |-> FALSE, err |-> e, scheme |-> "", has_host |-> FALSE, host |-> <<>>]
ParseOk(s, h) == [ok |-> TRUE, err |-> "", scheme |-> s, has_host |-> h # <<>>, host |-> h]

\* Url::parse(input), with no base to resolve against.
Url_parse(input) ==
    IF input = <<>> \/ Head(input) \notin SchemeTokens
    THEN ParseErr("RelativeUrlWithoutBase")
    ELSE LET scheme == Head(input)
             rest == Tail(input)
         IN IF scheme \in SpecialSchemes
            THEN LET host == HostOf(Authority(SkipSlashes(rest)))
                 IN IF host = <<>> THEN ParseErr("EmptyHost") ELSE ParseOk(scheme, host)
            ELSE IF Len(rest) >= 2 /\ rest[1] = "/" /\ rest[2] = "/"
                 THEN ParseOk(scheme, HostOf(Authority(SubSeq(rest, 3, Len(rest)))))
                 ELSE ParseOk(scheme, <<>>)

\* url.host_str() == Some(h)
host_str_is(u, h) == u.has_host /\ u.host = <<h>>

\* ------------------------------------------------------------- MarkdownRenderer::new
\* A plausible slip: the host only has to contain a trusted name.
use_relative_contains(b) ==
    /\ b.some
    /\ Url_parse(b.v).ok
    /\ \E i \in 1..Len(Url_parse(b.v).host) :
          Url_parse(b.v).host[i] \in {"github.com", "gitlab.com", "bitbucket.org"}

\* A plausible slip: an absent base counts as trusted.
use_relative_absent(b) ==
    IF b.some
    THEN /\ Url_parse(b.v).ok
         /\ \/ host_str_is(Url_parse(b.v), "github.com")
            \/ host_str_is(Url_parse(b.v), "gitlab.com")
            \/ host_str_is(Url_parse(b.v), "bitbucket.org")
    ELSE TRUE

\* let use_relative = ... (lines 124-133)
use_relative(b) ==
    IF b.some
    THEN IF Url_parse(b.v).ok
         THEN \/ host_str_is(Url_parse(b.v), "github.com")
              \/ host_str_is(Url_parse(b.v), "gitlab.com")
              \/ host_str_is(Url_parse(b.v), "bitbucket.org")
         ELSE FALSE
    ELSE FALSE

\* A plausible slip: the separator before the relative URL is always pushed.
relative_url_sanitizer_always_slash(captured, u) ==
    LET base == captured.v
        with_slash == IF base = <<>> \/ base[Len(base)] # "/" THEN base \o <<"/">> ELSE base
    IN with_slash \o <<"blob", "/", "master">> \o <<"/">> \o u

\* The closure relative_url_sanitizer (lines 111-122), for a captured base that
\* is Some; sanitizer_base_url.clone().unwrap() panics on None (see Unwraps).
relative_url_sanitizer(captured, u) ==
    LET base == captured.v
        with_slash == IF base = <<>> \/ base[Len(base)] # "/" THEN base \o <<"/">> ELSE base
        with_blob == with_slash \o <<"blob", "/", "master">>
        with_sep == IF u = <<>> \/ Head(u) # "/" THEN with_blob \o <<"/">> ELSE with_blob
    IN with_sep \o u

\* sanitizer_base_url.clone().unwrap() (line 112) does not panic.
Unwraps(captured) == captured.some

\* ------------------------------------------------------------- the policy tables
\* let tags = [...] (lines 20-59)
tags ==
    {"a", "b", "blockquote", "br", "code", "dd", "del", "dl", "dt", "em", "h1", "h2",
     "h3", "hr", "i", "img", "input", "kbd", "li", "ol", "p", "pre", "s", "strike",
     "strong", "sub", "sup", "table", "tbody", "td", "th", "thead", "tr", "ul", "span"}

\* A plausible slip: an event handler allowed on anchors.
tag_attributes_onclick ==
    [t \in {"a", "img", "input"} |->
        CASE t = "a" -> {"href", "target", "onclick"}
          [] t = "img" -> {"width", "height", "src", "alt", "align"}
          [] t = "input" -> {"checked", "disabled", "type"}]

\* let tag_attributes = [...] (lines 60-75)
tag_attributes ==
    [t \in {"a", "img", "input"} |->
        CASE t = "a" -> {"href", "target"}
          [] t = "img" -> {"width", "height", "src", "alt", "align"}
          [] t = "input" -> {"checked", "disabled", "type"}]

LanguageClasses ==
    {"language-bash", "language-clike", "language-glsl", "language-go", "language-ini",
     "language-javascript", "language-json", "language-markup", "language-protobuf",
     "language-ruby", "language-rust", "language-scss", "language-sql", "yaml"}

\* A plausible slip: paragraphs get an allowed-class set too, with a class in it
\* that is not a highlighting class.
allowed_classes_p == [t \in {"code", "p"} |-> LanguageClasses \cup {"bad-class"}]

\* let allowed_classes = [...] (lines 76-100)
allowed_classes == [t \in {"code"} |-> LanguageClasses]

\* .link_rel(Some("nofollow noopener noreferrer")) (line 137)
link_rel == <<"nofollow noopener noreferrer">>

\* Builder::new() (line 135) leaves the builder's other settings at the library's
\* defaults: the attributes allowed on every tag, and the URL schemes.
generic_attributes == {"lang", "title"}

url_schemes ==
    {"bitcoin:", "ftp:", "ftps:", "geo:", "http:", "https:", "im:", "irc:", "ircs:",
     "magnet:", "mailto:", "mms:", "mx:", "news:", "nntp:", "openpgp4fpr:", "sip:",
     "sms:", "smsto:", "ssh:", "tel:", "url:", "webcal:", "wtai:", "xmpp:"}

\* ------------------------------------------------------------- HTML
TextNode(s) == [kind |-> "text", tag |-> "", attrs |-> <<>>, children |-> <<>>, text |-> s]
Elem(t, as, cs) == [kind |-> "elem", tag |-> t, attrs |-> as, children |-> cs, text |-> <<>>]
Attr(n, v) == [name |-> n, value |-> v]

\* ------------------------------------------------------------- comrak (to_html, lines 154-162)
\* ext_tagfilter: true (line 158): the raw tags of the GFM tag filter leave the
\* converter with their "<" escaped, i.e. as text (tests, lines 201-219).
tagfilter ==
    {"title", "textarea", "style", "xmp", "iframe", "noembed", "noframes", "script",
     "plaintext"}

RECURSIVE comrak_markdown_to_html(_)
comrak_markdown_to_html(nodes) ==
    IF nodes = <<>> THEN <<>>
    ELSE LET n == Head(nodes)
             first ==
                IF n.kind = "elem" /\ n.tag \in tagfilter
                THEN <<TextNode(<<"<", n.tag, ">">>)>>
                     \o comrak_markdown_to_html(n.children)
                     \o <<TextNode(<<"<", "/", n.tag, ">">>)>>
                ELSE IF n.kind = "elem"
                THEN <<Elem(n.tag, n.attrs, comrak_markdown_to_html(n.children))>>
                ELSE <<n>>
         IN first \o comrak_markdown_to_html(Tail(nodes))

\* ------------------------------------------------------------- html_sanitizer.clean (line 163)
\* The attributes the sanitizer treats as URLs (of those the policy can let through).
is_url_attr(element, attr) == attr = "href" \/ attr = "src"

\* A plausible slip: every URL counts as relative.
is_url_relative_always(value) == TRUE

\* A URL is relative when it parses only against a base.
is_url_relative(value) == Url_parse(value).err = "RelativeUrlWithoutBase"

\* A plausible slip: relative URLs are kept under every policy.
attr_filter_keep_relative(policy, element, attr) ==
    LET whitelisted ==
            \/ attr.name \in generic_attributes
            \/ element \in DOMAIN tag_attributes /\ attr.name \in tag_attributes[element]
    IN IF ~whitelisted
       THEN attr.name = "class" /\ element \in DOMAIN allowed_classes
       ELSE IF is_url_attr(element, attr.name)
       THEN IF Url_parse(attr.value).ok
            THEN Url_parse(attr.value).scheme \in url_schemes
            ELSE Url_parse(attr.value).err = "RelativeUrlWithoutBase"
       ELSE TRUE

\* Which attributes of a kept element stay: the tag's allowed attributes and the
\* generic ones; class when the tag has allowed classes; a URL only with an
\* allowed scheme, or relative under a policy other than Deny.
attr_filter(policy, element, attr) ==
    LET whitelisted ==
            \/ attr.name \in generic_attributes
            \/ element \in DOMAIN tag_attributes /\ attr.name \in tag_attributes[element]
    IN IF ~whitelisted
       THEN attr.name = "class" /\ element \in DOMAIN allowed_classes
       ELSE IF is_url_attr(element, attr.name)
       THEN IF Url_parse(attr.value).ok
            THEN Url_parse(attr.value).scheme \in url_schemes
            ELSE IF Url_parse(attr.value).err = "RelativeUrlWithoutBase"
            THEN policy # "Deny"
            ELSE FALSE
       ELSE TRUE

\* The evaluator of UrlRelative::Custom is called on this attribute.
calls_evaluate(policy, element, attr) ==
    policy = "Custom" /\ is_url_attr(element, attr.name) /\ is_url_relative(attr.value)

\* A plausible slip: the hardening rel is not added.
adjust_node_attributes_no_rel(policy, captured, element, attrs) ==
    [i \in 1..Len(attrs) |->
        IF calls_evaluate(policy, element, attrs[i]) /\ Unwraps(captured)
        THEN Attr(attrs[i].name, relative_url_sanitizer(captured, attrs[i].value))
        ELSE IF attrs[i].name = "class" /\ element \in DOMAIN allowed_classes
        THEN Attr("class", SelectSeq(attrs[i].value,
                                     LAMBDA c : c \in allowed_classes[element]))
        ELSE attrs[i]]

\* What happens to the attributes that stayed: relative URLs are replaced by the
\* evaluator's result, class values are cut down to the allowed classes (the
\* attribute stays), and an anchor gets the rel of link_rel.
adjust_node_attributes(policy, captured, element, attrs) ==
    [i \in 1..Len(attrs) |->
        IF calls_evaluate(policy, element, attrs[i]) /\ Unwraps(captured)
        THEN Attr(attrs[i].name, relative_url_sanitizer(captured, attrs[i].value))
        ELSE IF attrs[i].name = "class" /\ element \in DOMAIN allowed_classes
        THEN Attr("class", SelectSeq(attrs[i].value,
                                     LAMBDA c : c \in allowed_classes[element]))
        ELSE attrs[i]]
    \o (IF element = "a" THEN <<Attr("rel", link_rel)>> ELSE <<>>)

\* A plausible slip: the children of a removed element are dropped with it.
unwrap_drop_children(cleaned_children) == <<>>

\* An element whose tag is not allowed is replaced by its (cleaned) children.
unwrap(cleaned_children) == cleaned_children

RECURSIVE clean(_, _, _)
clean(policy, captured, nodes) ==
    IF nodes = <<>> THEN <<>>
    ELSE LET n == Head(nodes)
             kids == clean(policy, captured, n.children)
             first ==
                IF n.kind = "text" THEN <<n>>
                ELSE IF n.tag \in tags
                THEN <<Elem(n.tag,
                            adjust_node_attributes(policy, captured, n.tag,
                                SelectSeq(n.attrs,
                                          LAMBDA a : attr_filter(policy, n.tag, a))),
                            kids)>>
                ELSE unwrap(kids)
         IN first \o clean(policy, captured, Tail(nodes))

\* The URLs handed to the evaluator while cleaning, in document order.
RECURSIVE evaluations(_, _)
evaluations(policy, nodes) ==
    IF nodes = <<>> THEN <<>>
    ELSE LET n == Head(nodes)
             kept == SelectSeq(n.attrs, LAMBDA a : attr_filter(policy, n.tag, a))
             called == SelectSeq(kept, LAMBDA a : calls_evaluate(policy, n.tag, a))
             here == IF n.kind = "elem" /\ n.tag \in tags
                     THEN [i \in 1..Len(called) |-> called[i].value]
                     ELSE <<>>
         IN here \o evaluations(policy, n.children) \o evaluations(policy, Tail(nodes))

Ok(html) == [kind |-> "Ok", html |-> html]
Panic == [kind |-> "Panic", html |-> <<>>]

\* MarkdownRenderer::to_html (lines 153-164), for a renderer holding this policy.
to_html(policy, captured, t) ==
    LET rendered == comrak_markdown_to_html(t)
    IN IF evaluations(policy, rendered) # <<>> /\ ~Unwraps(captured)
       THEN Panic
       ELSE Ok(clean(policy, captured, rendered))

\* The policy MarkdownRenderer::new installs (lines 141-145).
policy_of(b) == IF use_relative(b) THEN "Custom" ELSE "Deny"

\* markdown_to_html (lines 185-188).
markdown_to_html(t, b) == to_html(policy_of(b), b, t)

\* ------------------------------------------------------------- inputs
\* The lexemes base URLs are drawn from.
BaseLexemes ==
    {"https:", "javascript:", "/", "@", "github.com", "gitlab.com", "bitbucket.org",
     "google.com", "hub.com", "x"}

\* The lexemes relative URLs are drawn from.
UrlLexemes == {"/", "hi", "there", ".."}

\* One base of each kind: absent, unparseable, without a host, with an untrusted
\* host, with a trusted host, and with a trusted host under a script scheme.
SampleBases ==
    {None,
     Some(<<"x">>),
     Some(<<"javascript:", "x">>),
     Some(<<"https:", "/", "/", "google.com", "/">>),
     Some(<<"https:", "/", "/", "github.com", "/", "x">>),
     Some(<<"javascript:", "/", "/", "github.com", "/", "x">>)}

SampleAttrs ==
    {Attr(n, v) : n \in {"href", "src"},
                  v \in {<<"hi">>, <<"/", "hi">>,
                         <<"https:", "/", "/", "crates.io", "/", "x">>,
                         <<"javascript:", "alert">>}}
    \cup {Attr("class", v) : v \in {<<"language-rust">>, <<"bad-class">>,
                                    <<"language-rust", "bad-class">>}}
    \cup {Attr("onclick", <<"alert">>), Attr("rel", <<"follow">>), Attr("title", <<"T">>)}

\* Attribute lists: an element holds no attribute name twice.
AttrLists ==
    {as \in SeqUpTo(SampleAttrs, MaxAttrs) :
        \A i, j \in 1..Len(as) : as[i].name = as[j].name => i = j}

SampleTags == {"a", "img", "code", "p", "script", "unknown"}

\* What a root element holds: text, an unknown tag around text, or an image
\* followed by text.
SampleChildren ==
    {<<TextNode(<<"hi">>)>>,
     <<Elem("unknown", <<>>, <<TextNode(<<"hi">>)>>)>>,
     <<Elem("img", <<Attr("src", <<"there">>), Attr("class", <<"bad-class">>)>>, <<>>),
       TextNode(<<"t">>)>>}

\* img is a void element: it has no children.
Docs ==
    {<<Elem(t, as, IF t = "img" THEN <<>> ELSE cs)>> :
        t \in SampleTags, as \in AttrLists, cs \in SampleChildren}

\* ------------------------------------------------------------- markdown_to_html
\* A call of markdown_to_html(text, base_url).
Init ==
    /\ pc = "start"
    /\ base_url \in SampleBases
    /\ text \in Docs
    /\ sanitizer_base_url = None
    /\ url_relative = "Deny"
    /\ result = Ok(<<>>)
    /\ evaluated = <<>>
    /\ url = <<>>
    /\ new_url = <<>>

\* MarkdownRenderer::new(base_url) (lines 19-150).
New ==
    /\ pc = "start"
    /\ sanitizer_base_url' = base_url
    /\ url_relative' = (IF use_relative(base_url) THEN "Custom" ELSE "Deny")
    /\ pc' = "built"
    /\ UNCHANGED <<base_url, text, result, evaluated, url, new_url>>

\* renderer.to_html(text) (lines 153-164).
ToHtml ==
    /\ pc = "built"
    /\ result' = to_html(url_relative, sanitizer_base_url, text)
    /\ evaluated' = evaluations(url_relative, comrak_markdown_to_html(text))
    /\ pc' = "done"
    /\ UNCHANGED <<base_url, text, sanitizer_base_url, url_relative, url, new_url>>

Next == New \/ ToHtml

Spec == Init /\ [][Next]_vars

\* The same call, over every base of at most MaxBaseLen lexemes.
InitPolicy ==
    /\ pc = "start"
    /\ base_url \in {None} \cup {Some(b) : b \in SeqUpTo(BaseLexemes, MaxBaseLen)}
    /\ text \in {<<Elem("a", <<Attr("href", <<"hi">>)>>, <<TextNode(<<"hi">>)>>)>>}
    /\ sanitizer_base_url = None
    /\ url_relative = "Deny"
    /\ result = Ok(<<>>)
    /\ evaluated = <<>>
    /\ url = <<>>
    /\ new_url = <<>>

SpecPolicy == InitPolicy /\ [][Next]_vars

\* The closure alone, bound to a base MarkdownRenderer::new trusts.
InitResolver ==
    /\ pc = "resolver"
    /\ base_url \in {Some(b) : b \in {c \in SeqUpTo(BaseLexemes, MaxBaseLen) :
                                         use_relative(Some(c))}}
    /\ sanitizer_base_url = base_url
    /\ url_relative = "Custom"
    /\ url \in {u \in SeqUpTo(UrlLexemes, MaxUrlLen) : is_url_relative(u)}
    /\ text = <<>>
    /\ result = Ok(<<>>)
    /\ evaluated = <<>>
    /\ new_url = <<>>

\* One call of relative_url_sanitizer(url) (lines 111-122).
Resolve ==
    /\ pc = "resolver"
    /\ Unwraps(sanitizer_base_url)
    /\ new_url' = relative_url_sanitizer(sanitizer_base_url, url)
    /\ pc' = "resolved"
    /\ UNCHANGED <<base_url, text, sanitizer_base_url, url_relative, result, evaluated, url>>

NextResolver == Resolve

SpecResolver == InitResolver /\ [][NextResolver]_vars

\* ------------------------------------------------------------- properties
\* The value of a URL attribute is absolute: it starts with a scheme.
HasScheme(v) == v # <<>> /\ Head(v) \in SchemeTokens

\* The base is present, parses as an absolute URL, and its host is exactly one of
\* the three trusted hosts.
BaseTrusted(b) ==
    /\ b.some
    /\ Url_parse(b.v).ok
    /\ Url_parse(b.v).has_host
    /\ Url_parse(b.v).host \in {<<"github.com">>, <<"gitlab.com">>, <<"bitbucket.org">>}

\* Every element of a forest, in document order.
RECURSIVE AllElems(_)
AllElems(nodes) ==
    IF nodes = <<>> THEN <<>>
    ELSE (IF Head(nodes).kind = "elem" THEN <<Head(nodes)>> ELSE <<>>)
         \o AllElems(Head(nodes).children) \o AllElems(Tail(nodes))

\* The elements with an allowed tag, in document order.
Elems(nodes) == SelectSeq(AllElems(nodes), LAMBDA e : e.tag \in tags)

\* The tag names of a sequence of elements.
TagsOf(es) == [i \in 1..Len(es) |-> es[i].tag]

\* The contents of the text nodes of a forest, in document order.
RECURSIVE TextNodes(_)
TextNodes(nodes) ==
    IF nodes = <<>> THEN <<>>
    ELSE (IF Head(nodes).kind = "text" THEN <<Head(nodes).text>> ELSE <<>>)
         \o TextNodes(Head(nodes).children) \o TextNodes(Tail(nodes))

\* The text nodes that are not the escaped markers of a filtered tag.
OwnText(nodes) == SelectSeq(TextNodes(nodes), LAMBDA t : Head(t) # "<")

HasAttr(e, n) == \E i \in 1..Len(e.attrs) : e.attrs[i].name = n

\* The output of the markdown converter for the document of this call.
Rendered == comrak_markdown_to_html(text)

\* C1: the policy MarkdownRenderer::new builds rewrites relative URLs (Custom) if and
\* only if the base is present, parses as an absolute URL and has exactly one of
\* the hosts github.com, gitlab.com, bitbucket.org; in every other case it is Deny.
C1_PolicyIffTrustedHost ==
    pc # "start" =>
        /\ url_relative \in {"Custom", "Deny"}
        /\ (url_relative = "Custom") <=> BaseTrusted(base_url)

C1_Witness ==
    /\ pc = "built"
    /\ url_relative = "Custom"
    /\ base_url = Some(<<"https:", "/", "/", "github.com">>)

\* C2: for a trusted base b and a relative URL u the resolver returns b, a "/" only
\* if b does not end with one, "blob/master", a "/" only if u does not start with
\* one, and u, unchanged; so a trailing slash on b or a leading slash on u makes no
\* difference to the result.
C2_ResolverConcatenates ==
    pc = "resolved" =>
        LET b == sanitizer_base_url.v
            sep1 == IF b # <<>> /\ b[Len(b)] = "/" THEN <<>> ELSE <<"/">>
            sep2 == IF url # <<>> /\ Head(url) = "/" THEN <<>> ELSE <<"/">>
        IN /\ new_url = b \o sep1 \o <<"blob", "/", "master">> \o sep2 \o url
           /\ sep1 # <<>> => new_url = relative_url_sanitizer(Some(b \o <<"/">>), url)
           /\ sep2 # <<>> => new_url = relative_url_sanitizer(Some(b), <<"/">> \o url)

C2_Witness ==
    /\ pc = "resolved"
    /\ sanitizer_base_url = Some(<<"https:", "github.com", "/", "x">>)
    /\ url = <<"/", "hi">>
    /\ new_url = <<"https:", "github.com", "/", "x", "/", "blob", "/", "master", "/", "hi">>

\* C3: with the base absent or not trusted, no href or src holding a relative URL is
\* left in the output, while the allowed tags and the text are all still there and
\* every anchor has the hardening rel.
C3_DenyRemovesRelativeUrls ==
    (pc = "done" /\ ~BaseTrusted(base_url)) =>
        /\ result.kind = "Ok"
        /\ \A i \in 1..Len(AllElems(result.html)) :
              LET e == AllElems(result.html)[i]
              IN /\ \A j \in 1..Len(e.attrs) :
                        e.attrs[j].name \in {"href", "src"} => HasScheme(e.attrs[j].value)
                 /\ e.tag = "a" =>
                        \E j \in 1..Len(e.attrs) :
                            e.attrs[j] = Attr("rel", <<"nofollow noopener noreferrer">>)
        /\ TagsOf(Elems(result.html)) = TagsOf(Elems(Rendered))
        /\ TextNodes(result.html) = TextNodes(Rendered)

C3_Witness ==
    /\ pc = "done"
    /\ base_url = Some(<<"https:", "/", "/", "google.com", "/">>)
    /\ text = <<Elem("a", <<Attr("href", <<"/", "hi">>)>>, <<TextNode(<<"hi">>)>>)>>
    /\ result = Ok(<<Elem("a", <<Attr("rel", <<"nofollow noopener noreferrer">>)>>,
                          <<TextNode(<<"hi">>)>>)>>)

\* C4: an href or src whose value in the input is absolute and that is still in the
\* output has the same value there, under every base; the resolver is only ever
\* called on URLs without a scheme.
C4_AbsoluteUrlsUnchanged ==
    (pc = "done" /\ result.kind = "Ok") =>
        /\ \A i \in 1..Len(evaluated) : ~HasScheme(evaluated[i])
        /\ Len(Elems(result.html)) = Len(Elems(Rendered))
        /\ \A i \in 1..Len(Elems(Rendered)) :
              LET inp == Elems(Rendered)[i]
                  out == Elems(result.html)[i]
              IN \A j \in 1..Len(inp.attrs), k \in 1..Len(out.attrs) :
                    (/\ inp.attrs[j].name \in {"href", "src"}
                     /\ HasScheme(inp.attrs[j].value)
                     /\ out.attrs[k].name = inp.attrs[j].name)
                    => out.attrs[k].value = inp.attrs[j].value

C4_Witness ==
    /\ pc = "done"
    /\ url_relative = "Custom"
    /\ evaluated = <<<<"there">>>>
    /\ \E i \in 1..Len(AllElems(result.html)) :
          /\ AllElems(result.html)[i].tag = "a"
          /\ \E j \in 1..Len(AllElems(result.html)[i].attrs) :
                AllElems(result.html)[i].attrs[j] =
                    Attr("href", <<"https:", "/", "/", "crates.io", "/", "x">>)

\* C5: every anchor in the output has exactly one rel attribute, and its value is
\* "nofollow noopener noreferrer", whatever rel the input had, whether or not the
\* href is left, under every base.
C5_AnchorsHaveHardeningRel ==
    (pc = "done" /\ result.kind = "Ok") =>
        \A i \in 1..Len(AllElems(result.html)) :
            LET e == AllElems(result.html)[i]
            IN e.tag = "a" =>
                /\ HasAttr(e, "rel")
                /\ \A j, k \in 1..Len(e.attrs) :
                      e.attrs[j].name = "rel" =>
                          /\ e.attrs[j].value = <<"nofollow noopener noreferrer">>
                          /\ e.attrs[k].name = "rel" => j = k

C5_Witness ==
    /\ pc = "done"
    /\ text[1].tag = "a"
    /\ \E j \in 1..Len(text[1].attrs) : text[1].attrs[j] = Attr("rel", <<"follow">>)
    /\ \E j \in 1..Len(text[1].attrs) : text[1].attrs[j] = Attr("href", <<"hi">>)
    /\ url_relative = "Deny"
    /\ result.kind = "Ok"
    /\ result.html[1].attrs = <<Attr("rel", <<"nofollow noopener noreferrer">>)>>

\* C6: the output holds no element whose tag is outside the allowed set, and every
\* text node of the input is still in the output, in order.
C6_DisallowedTagsUnwrapped ==
    (pc = "done" /\ result.kind = "Ok") =>
        /\ \A i \in 1..Len(AllElems(result.html)) : AllElems(result.html)[i].tag \in tags
        /\ OwnText(result.html) = TextNodes(text)

C6_Witness ==
    /\ pc = "done"
    /\ text[1].tag = "unknown"
    /\ text[1].children = <<Elem("unknown", <<>>, <<TextNode(<<"hi">>)>>)>>
    /\ result = Ok(<<TextNode(<<"hi">>)>>)

\* What the claim lists as the attributes a tag may keep.
ListedAttrs(t) ==
    CASE t = "a" -> {"href", "target", "rel"}
      [] t = "img" -> {"width", "height", "src", "alt", "align"}
      [] t = "input" -> {"checked", "disabled", "type"}
      [] t = "code" -> {"class"}
      [] OTHER -> {}

\* C7, as stated: an element of the output has only the attributes listed for its
\* tag (plus rel on anchors and class on code).
C7_OnlyListedAttributes ==
    (pc = "done" /\ result.kind = "Ok") =>
        \A i \in 1..Len(AllElems(result.html)) :
            LET e == AllElems(result.html)[i]
            IN \A j \in 1..Len(e.attrs) : e.attrs[j].name \in ListedAttrs(e.tag)

\* C7, amended: an element of the output has only the attributes listed for its
\* tag, rel on anchors, class on code, and lang and title, which stay on every
\* tag; an event handler such as onclick is never in the output.
C7_OnlyListedOrGenericAttributes ==
    (pc = "done" /\ result.kind = "Ok") =>
        \A i \in 1..Len(AllElems(result.html)) :
            LET e == AllElems(result.html)[i]
            IN \A j \in 1..Len(e.attrs) :
                  /\ e.attrs[j].name \in ListedAttrs(e.tag) \cup {"lang", "title"}
                  /\ e.attrs[j].name # "onclick"

C7_Witness ==
    /\ pc = "done"
    /\ text[1].tag = "p"
    /\ text[1].attrs = <<Attr("onclick", <<"alert">>), Attr("title", <<"T">>)>>
    /\ result.kind = "Ok"
    /\ result.html[1].attrs = <<Attr("title", <<"T">>)>>

\* The position of the class attribute of an element (0: it has none).
ClassOf(e) ==
    IF HasAttr(e, "class")
    THEN (CHOOSE j \in 1..Len(e.attrs) : e.attrs[j].name = "class")
    ELSE 0

\* C8, as stated: a class attribute of the output holds only classes allowed for
\* its tag, and at least one.
C8_NoEmptyClass ==
    (pc = "done" /\ result.kind = "Ok") =>
        \A i \in 1..Len(AllElems(result.html)) :
            LET e == AllElems(result.html)[i]
            IN \A j \in 1..Len(e.attrs) :
                  e.attrs[j].name = "class" =>
                      /\ e.tag = "code"
                      /\ e.attrs[j].value # <<>>
                      /\ \A k \in 1..Len(e.attrs[j].value) :
                            e.attrs[j].value[k] \in LanguageClasses

\* C8, amended: of a class attribute only the classes allowed for the tag are left,
\* in order; the tag is kept; a tag other than code has no class attribute in the
\* output, and code keeps its class attribute, with an empty value when no class
\* is left.
C8_OnlyAllowedClasses ==
    (pc = "done" /\ result.kind = "Ok") =>
        /\ TagsOf(Elems(result.html)) = TagsOf(Elems(Rendered))
        /\ \A i \in 1..Len(Elems(Rendered)) :
              LET inp == Elems(Rendered)[i]
                  out == Elems(result.html)[i]
              IN IF inp.tag = "code" /\ HasAttr(inp, "class")
                 THEN /\ HasAttr(out, "class")
                      /\ out.attrs[ClassOf(out)].value =
                            SelectSeq(inp.attrs[ClassOf(inp)].value,
                                      LAMBDA c : c \in LanguageClasses)
                 ELSE ~HasAttr(out, "class")

C8_Witness ==
    /\ pc = "done"
    /\ text[1].tag = "code"
    /\ text[1].attrs = <<Attr("class", <<"bad-class">>)>>
    /\ result.kind = "Ok"
    /\ result.html[1].tag = "code"
    /\ result.html[1].attrs = <<Attr("class", <<>>)>>

\* C9: sanitizing the output again, under the same policy, gives the same output.
C9_SanitizeIdempotent ==
    (pc = "done" /\ result.kind = "Ok") =>
        clean(url_relative, sanitizer_base_url, result.html) = result.html

\* C10: markdown_to_html returns Ok for every text and base; a base that is not
\* trusted gives the output of an absent base; the resolver is installed, and
\* called, only with a base to unwrap.
C10_NeverFails ==
    /\ pc = "done" => result.kind = "Ok"
    /\ (pc = "done" /\ ~BaseTrusted(base_url)) => result = markdown_to_html(text, None)
    /\ (pc # "start" /\ url_relative = "Custom") => sanitizer_base_url.some
    /\ (pc = "done" /\ evaluated # <<>>) => sanitizer_base_url.some

C10_Witness ==
    /\ pc = "done"
    /\ base_url = Some(<<"x">>)
    /\ text[1].tag = "a"
    /\ text[1].attrs = <<Attr("href", <<"hi">>)>>
    /\ result.kind = "Ok"
    /\ result = markdown_to_html(text, None)

====
